---- MODULE Spec2Model ----
(***************************************************************************)
(* Model of src/hdr_dbl_histogram.c: the double-valued histogram that      *)
(* keeps a power-of-two window [current_lowest_value,                      *)
(* current_highest_value) over a fixed integer histogram engine.           *)
(*                                                                         *)
(* Numbers.  TLC integers are 32 bits wide, the program's are int64 and    *)
(* IEEE doubles.  A double or an int64 is therefore the record             *)
(* [m |-> mantissa, e |-> exponent] that denotes m * 2^e exactly, with m   *)
(* odd (or m = 0, e = 0) and |m| < 2^30.  Every operation below gives the  *)
(* IEEE result for such operands: products with a power of two are exact   *)
(* between 2^-1074 and 2^1023, and are rounded (to zero, to the smallest   *)
(* subnormal, or to infinity) outside.  Infinity is Num(1, 1024).          *)
(***************************************************************************)
EXTENDS Integers, Sequences, FiniteSets, TLC

\* ------------------------------------------------------------------------
\* Bounds of the model (not program constants).
\* ------------------------------------------------------------------------
MaxCalls == 3

\* ------------------------------------------------------------------------
\* Evaluation helper: F applied to the value of x, with x evaluated once.
\* ------------------------------------------------------------------------
With(x, F(_)) == CHOOSE r \in { F(v) : v \in {x} } : TRUE

\* ------------------------------------------------------------------------
\* Number representation.
\* ------------------------------------------------------------------------
\* 2^k for 0 <= k <= 30.
Pow2(k) == IF k <= 0 THEN 1 ELSE 2 ^ k

\* Number of bits of n: the b with 2^(b-1) <= n < 2^b, 0 for n <= 0; by
\* halves of 16, 8 and 4 bits.
BitLen4(n) ==
    IF n < 4 THEN (IF n < 2 THEN n ELSE 2) ELSE (IF n < 8 THEN 3 ELSE 4)

BitLen8(n) == IF n < 16 THEN BitLen4(n) ELSE 4 + BitLen4(n \div 16)

BitLen16(n) == IF n < 256 THEN BitLen8(n) ELSE 8 + BitLen8(n \div 256)

BitLen(n) ==
    IF n <= 0 THEN 0
    ELSE IF n < 65536 THEN BitLen16(n) ELSE 16 + BitLen16(n \div 65536)

Abs(n) == IF n < 0 THEN -n ELSE n

\* Number of factors of two of m # 0, by halves of 16, 8 and 4 bits.
TrailingZeros4(m) ==
    IF m % 2 = 1 THEN 0 ELSE IF m % 4 = 2 THEN 1
    ELSE IF m % 8 = 4 THEN 2 ELSE 3

TrailingZeros8(m) ==
    IF m % 16 # 0 THEN TrailingZeros4(m) ELSE 4 + TrailingZeros4(m \div 16)

TrailingZeros16(m) ==
    IF m % 256 # 0 THEN TrailingZeros8(m) ELSE 8 + TrailingZeros8(m \div 256)

TrailingZeros(m) ==
    IF m % 65536 # 0 THEN TrailingZeros16(m)
    ELSE 16 + TrailingZeros16(m \div 65536)

\* m * 2^e with the factors of two of m moved into the exponent.
Norm(m, e) ==
    IF m = 0 THEN [m |-> 0, e |-> 0]
    ELSE LET t == TrailingZeros(m)
         IN  [m |-> m \div Pow2(t), e |-> e + t]

Num(m, e) == Norm(m, e)

Zero == Num(0, 0)
One == Num(1, 0)
Inf == [m |-> 1, e |-> 1024]

\* Position of the highest set bit: for x > 0, 2^(Mag(x)-1) <= x < 2^Mag(x).
Mag(x) == BitLen(Abs(x.m)) + x.e

IsPow2(x) == x.m = 1

Sgn(x) == IF x.m > 0 THEN 1 ELSE IF x.m < 0 THEN -1 ELSE 0

Neg(x) == [m |-> -x.m, e |-> x.e]

\* a < b for a, b > 0: by magnitude, then by aligned mantissas.
PosLT(a, b) ==
    IF Mag(a) # Mag(b) THEN Mag(a) < Mag(b)
    ELSE LET mn == IF a.e < b.e THEN a.e ELSE b.e
         IN  a.m * Pow2(a.e - mn) < b.m * Pow2(b.e - mn)

NumLT(a, b) ==
    IF Sgn(a) # Sgn(b) THEN Sgn(a) < Sgn(b)
    ELSE IF Sgn(a) = 0 THEN FALSE
    ELSE IF Sgn(a) = 1 THEN PosLT(a, b)
    ELSE PosLT(Neg(b), Neg(a))

NumLE(a, b) == ~NumLT(b, a)

\* IEEE rounding of an exact m * 2^e (|m| < 2^30) to a double: overflow to
\* infinity, round-to-nearest-even onto the subnormal grid 2^-1074.
DblRound(x) ==
    IF x.m = 0 THEN Zero
    ELSE IF Mag(x) > 1024 THEN [m |-> Sgn(x), e |-> 1024]
    ELSE IF x.e >= -1074 THEN x
    ELSE LET k == -1074 - x.e
             a == Abs(x.m)
         IN  IF k > 30 THEN Zero
             ELSE LET q == a \div Pow2(k)
                      r == a % Pow2(k)
                      half == Pow2(k - 1)
                      up == r > half \/ (r = half /\ q % 2 = 1)
                  IN  Num(Sgn(x) * (IF up THEN q + 1 ELSE q), -1074)

\* a * b in double arithmetic.
DblMul(a, b) == DblRound(Num(a.m * b.m, a.e + b.e))

\* a / b in double arithmetic for b a power of two (exact reciprocal).
DblDivPow2(a, b) == DblRound(Num(a.m, a.e - b.e))

\* (int64_t) 1 << n, and an int64 held in a TLC integer.
Shl1(n) == Num(1, n)
OfInt(n) == Num(n, 0)

\* 2^k = q * m + r with 0 <= r < m, for 0 < m < 2^30, by long division in
\* digits of as many bits as keep r * 2^bits within 31 bits (the quotient
\* fits 30 bits).
RECURSIVE Pow2DivMod(_, _)
Pow2DivMod(k, m) ==
    LET digit == 31 - BitLen(m)
    IN  IF k <= 30 THEN [q |-> Pow2(k) \div m, r |-> Pow2(k) % m]
        ELSE IF digit = 0
        THEN LET p == Pow2DivMod(k - 1, m)
             IN  IF p.r >= m - p.r
                 THEN [q |-> 2 * p.q + 1, r |-> p.r - (m - p.r)]
                 ELSE [q |-> 2 * p.q, r |-> 2 * p.r]
        ELSE IF k <= digit THEN [q |-> Pow2(k) \div m, r |-> Pow2(k) % m]
        ELSE LET p == Pow2DivMod(k - digit, m)
                 t == p.r * Pow2(digit)
             IN  [q |-> p.q * Pow2(digit) + t \div m, r |-> t % m]

\* floor(2^k / m).
FloorPow2Div(k, m) == Pow2DivMod(k, m).q

\* An integer-valued double too large for a TLC integer is kept by its bit
\* length: [bits |-> 64 - clz, n |-> the value when bits <= 30, pow2 |->
\* whether it is a power of two].
IVal(bits, n, pow2) == [bits |-> bits, n |-> n, pow2 |-> pow2]

\* ------------------------------------------------------------------------
\* Program constants.
\* ------------------------------------------------------------------------
\* HIGHEST_VALUE_EVA = 4.49423283715579E307, which is the double 2^1022.
HIGHEST_VALUE_EVA == Num(1, 1022)

\* pow(2.0, 800), the initial current_lowest_value.
InitialLowestExp == 800

\* ------------------------------------------------------------------------
\* Static helpers of hdr_dbl_histogram.c.
\* ------------------------------------------------------------------------
\* One "result *= base" of power(): the int64 product is stored back into
\* the 32-bit int accumulator, i.e. reduced modulo 2^32 into the signed
\* range.  Computed on 16-bit halves (0 <= base < 2^11).
MulWrap32(result, base) ==
    LET hi == (result \div 65536) % 65536
        lo == result % 65536
        plo == lo * base
        phi == (hi * base + plo \div 65536) % 65536
        rlo == plo % 65536
    IN  IF phi >= 32768 THEN (phi - 65536) * 65536 + rlo
        ELSE phi * 65536 + rlo

RECURSIVE power(_, _)
power(base, exp) ==
    IF exp = 0 THEN 1 ELSE MulWrap32(power(base, exp - 1), base)

\* (a * 1000) / d without leaving 32 bits.
MulDiv1000(a, d) == (a \div d) * 1000 + ((a % d) * 1000) \div d

\* ceil(log(y)) for y in thousandths: the number of divisions by e = 2.718
\* that bring y down to at most 1.
RECURSIVE CeilLogAcc(_, _)
CeilLogAcc(y, k) ==
    IF y <= 1000 THEN k ELSE CeilLogAcc(MulDiv1000(y, 2718), k + 1)

\* The same for y * 10^dec, which need not fit 32 bits: y is kept between
\* 10^5 and 10^6 thousandths while decimal digits remain.
RECURSIVE CeilLogDecAcc(_, _, _)
CeilLogDecAcc(y, dec, k) ==
    IF dec = 0 THEN CeilLogAcc(y, k)
    ELSE IF y < 100000 THEN CeilLogDecAcc(y * 10, dec - 1, k)
    ELSE CeilLogDecAcc(MulDiv1000(y, 2718), dec, k + 1)

\* ceil(log(num * 10^dec / log(2))), with log(2) = 0.693.
CeilLogOverLog2(num, dec) ==
    CeilLogDecAcc(MulDiv1000(num * 1000, 693), dec, 0)

\* number_of_sub_buckets: 2 * (int64_t) pow(10, significant_figures) is
\* exact (pow of <math.h>, not power); note log(x / log(2)), not
\* log(x) / log(2).
number_of_sub_buckets(significant_figures) ==
    LET sub_bucket_count_magnitude ==
            CeilLogOverLog2(2, significant_figures)
    IN  Pow2(sub_bucket_count_magnitude)

\* 64 - __builtin_clzll(value) for an int64 value >= 1.
find_containing_binary_order_of_magnitude(value) == Mag(value)

\* INT64_C(1) << (order of magnitude + 1), as the power of two 2^(...).
calculate_internal_highest_to_lowest_value_ratio(external_highest_to_lowest_value_ratio) ==
    Shl1(find_containing_binary_order_of_magnitude(
             external_highest_to_lowest_value_ratio) + 1)

calculate_integer_value_range(external_highest_to_lowest_value_ratio, significant_figures) ==
    LET internal_highest_to_lowest_value_ratio ==
            calculate_internal_highest_to_lowest_value_ratio(
                external_highest_to_lowest_value_ratio)
        lowest_tracking_integer_value ==
            number_of_sub_buckets(significant_figures) \div 2
    IN  Num(lowest_tracking_integer_value * internal_highest_to_lowest_value_ratio.m,
            internal_highest_to_lowest_value_ratio.e)

\* (int32_t) (log(x) / log(2)) for an int64 x >= 1: floor(log2(x)).
FloorLog2(x) == Mag(x) - 1

\* ------------------------------------------------------------------------
\* The integer histogram engine (hdr_histogram.c, not part of src/): modelled
\* from its interface in the specification.
\* ------------------------------------------------------------------------
\* The int64 extremes a failed double -> int64 conversion can produce.
\* Int64Max is 2^63 - 1: "one less than m * 2^e".
Int64Min == [m |-> -1, e |-> 63]
Int64Max == [m |-> 1, e |-> 63, less |-> 1]

\* Bit length of a non-negative int64.
Mag64(v) == IF "less" \in DOMAIN v THEN v.e ELSE Mag(v)

\* Smallest k with 2^k >= n.
RECURSIVE CeilLog2Acc(_, _)
CeilLog2Acc(n, k) == IF Pow2(k) >= n THEN k ELSE CeilLog2Acc(n, k + 1)

EINVAL == 22

\* derive_bucket_config(lowest = 1, highest = range - 1, significant_figures),
\* for range a power of two: sub_bucket_count is the smallest power of two
\* >= 2 * 10^significant_figures, and the configuration covers [1, range - 1].
\* The engine supports 1 to 5 significant figures and rejects the others.
hdr_calculate_bucket_config(lowest, range, significant_figures) ==
    IF significant_figures < 1 \/ significant_figures > 5 THEN [rc |-> EINVAL]
    ELSE
    LET magnitude == CeilLog2Acc(2 * power(10, significant_figures), 0)
        buckets == IF Mag(range) - 1 > magnitude
                   THEN Mag(range) - magnitude ELSE 1
    IN  [rc |-> 0,
         significant_figures |-> significant_figures,
         sub_bucket_count |-> Pow2(magnitude),
         sub_bucket_half_count |-> Pow2(magnitude - 1),
         sub_bucket_half_count_magnitude |-> magnitude - 1,
         highest_trackable_bits |-> Mag(range) - 1,
         counts_len |-> (buckets + 1) * Pow2(magnitude - 1)]

\* init_in_place over zeroed storage: no counts.  refuses_shift tells the
\* engine at hand apart: FALSE for the engine of the specification, TRUE for
\* an engine whose shift_values_left / shift_values_right return false.
hdr_init_preallocated(cfg) ==
    [total_count |-> 0,
     refuses_shift |-> FALSE,
     counts |-> [k \in {} |-> 0],
     conversion_ratio |-> One,
     significant_figures |-> cfg.significant_figures,
     sub_bucket_half_count |-> cfg.sub_bucket_half_count,
     sub_bucket_half_count_magnitude |-> cfg.sub_bucket_half_count_magnitude,
     highest_trackable_bits |-> cfg.highest_trackable_bits,
     counts_len |-> cfg.counts_len]

\* counts is a function from the indices that hold a count to that count,
\* kept as an explicit table of its entries.
Table(f) == [k \in {} |-> 0] @@ f

hdr_count_at_index(values, index) ==
    IF index \in DOMAIN values.counts THEN values.counts[index] ELSE 0

\* The bucket index of a non-negative integer value: index 0 is the zero
\* bucket, one sub-bucket per value up to sub_bucket_count, then
\* sub_bucket_half_count indices per further binary order of magnitude.
counts_index_for(values, v) ==
    IF v.m = 0 THEN 0
    ELSE LET hm == values.sub_bucket_half_count_magnitude
             bucket == IF Mag(v) > hm + 1 THEN Mag(v) - (hm + 1) ELSE 0
             sub == IF v.e >= bucket THEN v.m * Pow2(v.e - bucket)
                    ELSE v.m \div Pow2(bucket - v.e)
         IN  bucket * values.sub_bucket_half_count + sub

\* record(engine, int_value): fails, adding nothing, for a negative value
\* and for a value above the highest value the configuration covers.
hdr_record_value(values, int_value) ==
    IF int_value.m < 0 \/ Mag64(int_value) > values.highest_trackable_bits
    THEN [ret |-> FALSE, values |-> values]
    ELSE LET i == counts_index_for(values, int_value)
             c == hdr_count_at_index(values, i)
         IN  [ret |-> TRUE,
              values |-> [values EXCEPT
                  !.total_count = @ + 1,
                  !.counts = Table([k \in DOMAIN values.counts \cup {i} |->
                                 IF k = i THEN c + 1 ELSE values.counts[k]])]]

\* Where a count at index i moves when every value is multiplied by 2^shift
\* (left) or divided by it (right); -1 when the move would lose precision.
ShiftedIndexLeft(values, i, shift) ==
    IF i = 0 THEN 0
    ELSE IF i >= values.sub_bucket_half_count
         THEN i + shift * values.sub_bucket_half_count
         ELSE counts_index_for(values, Num(i, shift))

ShiftedIndexRight(values, i, shift) ==
    IF i = 0 THEN 0
    ELSE IF i >= (shift + 1) * values.sub_bucket_half_count
         THEN i - shift * values.sub_bucket_half_count
         ELSE -1

Rebased(values, moved(_)) ==
    [values EXCEPT !.counts =
        Table([k \in {moved(i) : i \in DOMAIN values.counts} |->
                  LET src == CHOOSE i \in DOMAIN values.counts : moved(i) = k
                  IN  values.counts[src]])]

\* shift_values_left / shift_values_right: rebase every recorded count by a
\* power of two; true when the rebase was lossless and was applied, false
\* (and nothing applied) otherwise.
hdr_shift_values_left(values, shift) ==
    LET moved(i) == ShiftedIndexLeft(values, i, shift)
        lossless == \A i \in DOMAIN values.counts : moved(i) < values.counts_len
    IN  IF values.refuses_shift THEN [ret |-> FALSE, values |-> values]
        ELSE IF lossless THEN [ret |-> TRUE, values |-> Rebased(values, moved)]
        ELSE [ret |-> FALSE, values |-> values]

hdr_shift_values_right(values, shift) ==
    LET moved(i) == ShiftedIndexRight(values, i, shift)
        lossless == \A i \in DOMAIN values.counts : moved(i) >= 0
    IN  IF values.refuses_shift THEN [ret |-> FALSE, values |-> values]
        ELSE IF lossless THEN [ret |-> TRUE, values |-> Rebased(values, moved)]
        ELSE [ret |-> FALSE, values |-> values]

\* ------------------------------------------------------------------------
\* hdr_dbl_init.
\* ------------------------------------------------------------------------
\* a * b >= 2^k in the integers, for 32-bit a, b.
MulGEPow2(a, b, k) ==
    IF a <= 0 \/ b <= 0 THEN FALSE
    ELSE IF BitLen(a) + BitLen(b) - 2 >= k THEN TRUE
    ELSE IF BitLen(a) + BitLen(b) <= k THEN FALSE
    ELSE IF Norm(b, 0).m = 1 THEN FALSE
    ELSE a > FloorPow2Div(k, b)

\* a * b > 2^k: as above, except when the product is 2^k.
MulGTPow2(a, b, k) ==
    MulGEPow2(a, b, k)
    /\ ~(Norm(a, 0).m = 1 /\ Norm(b, 0).m = 1
         /\ BitLen(a) + BitLen(b) - 2 = k)

\* highest_to_lowest_value_ratio * power(10, significant_figures) >=
\* INT64_C(1) << 61 for an int64 ratio >= 2 and the int64 p that power
\* returned: the set of results the comparison can have.  A product outside
\* int64 is a signed overflow, which is undefined: the comparison can then
\* go either way.
ProductGuard(ratio, p) ==
    IF p > 0 /\ MulGEPow2(ratio.m, p, 63 - ratio.e) THEN {TRUE, FALSE}
    ELSE IF p < 0 /\ MulGTPow2(ratio.m, -p, 63 - ratio.e) THEN {TRUE, FALSE}
    ELSE {MulGEPow2(ratio.m, p, 61 - ratio.e)}

\* The possible results of one call (one, unless the product of the third
\* guard overflows): rc is the returned code, check the return statement
\* taken ("ratio", "figures", "product": the three guards; "config": the
\* engine's bucket configuration failed; "none": the final return 0), h the
\* histogram stored through result.  The ratio is an int64; the integer
\* value range stays below 2^63 for every call with 1 to 5 significant
\* figures and a ratio below 2^48, and the engine rejects the other figures
\* whatever the range.
hdr_dbl_init(highest_to_lowest_value_ratio, significant_figures) ==
    IF NumLT(highest_to_lowest_value_ratio, OfInt(2))
    THEN {[rc |-> EINVAL, check |-> "ratio"]}
    ELSE IF significant_figures < 1
    THEN {[rc |-> EINVAL, check |-> "figures"]}
    ELSE
    LET integer_value_range ==
            calculate_integer_value_range(highest_to_lowest_value_ratio,
                                          significant_figures)
        cfg == hdr_calculate_bucket_config(1, integer_value_range,
                                           significant_figures)
        internal_highest_to_lowest_value_ratio ==
            calculate_internal_highest_to_lowest_value_ratio(
                highest_to_lowest_value_ratio)
        current_lowest_value == Num(1, InitialLowestExp)
        int_to_dbl_conversion_ratio ==
            DblDivPow2(current_lowest_value, OfInt(cfg.sub_bucket_half_count))
    IN  { IF rejected THEN [rc |-> EINVAL, check |-> "product"]
          ELSE IF cfg.rc # 0 THEN [rc |-> cfg.rc, check |-> "config"]
          ELSE
          [rc |-> 0, check |-> "none",
           h |-> [highest_to_lowest_value_ratio |->
                      highest_to_lowest_value_ratio,
                  current_lowest_value |-> current_lowest_value,
                  current_highest_value |->
                      DblMul(current_lowest_value,
                             internal_highest_to_lowest_value_ratio),
                  int_to_dbl_conversion_ratio |-> int_to_dbl_conversion_ratio,
                  dbl_to_int_conversion_ratio |->
                      DblDivPow2(One, int_to_dbl_conversion_ratio),
                  values |-> [hdr_init_preallocated(cfg) EXCEPT
                      !.conversion_ratio = int_to_dbl_conversion_ratio]]] :
          rejected \in ProductGuard(highest_to_lowest_value_ratio,
                                    power(10, significant_figures)) }

\* ------------------------------------------------------------------------
\* Range adjustment.
\* ------------------------------------------------------------------------
\* r_val = ceil(h->current_lowest_value / value) - 1.0, for 0 < value <
\* current_lowest_value (a power of two): with value = m * 2^e the quotient
\* is 2^k / m, an integer 2^k when m = 1 and strictly between two integers
\* otherwise (m is odd), so r_val is 2^k - 1 or floor(2^k / m).
r_val_below(h, value) ==
    LET k == h.current_lowest_value.e - value.e
        m == value.m
        bits == IF m = 1 THEN k ELSE k - BitLen(m) + 1
        n == IF bits > 30 \/ bits < 1 THEN 0
             ELSE IF m = 1 THEN Pow2(k) - 1 ELSE FloorPow2Div(k, m)
    IN  IVal(bits, n, bits <= 30 /\ Norm(n, 0).m = 1)

\* r_val = ceil(nextafter(value, DBL_MAX) / h->current_highest_value) - 1.0,
\* for value >= current_highest_value (a power of two): nextafter lifts an
\* integer quotient just above itself and leaves a fractional one between
\* the same two integers, so r_val is floor(value / current_highest_value).
r_val_above(h, value) ==
    LET j == value.e - h.current_highest_value.e
        m == value.m
        n0 == IF j >= 0 THEN 0 ELSE m \div Pow2(-j)
        bits == IF j >= 0 THEN BitLen(m) + j ELSE BitLen(n0)
        n == IF bits > 30 THEN 0 ELSE IF j >= 0 THEN m * Pow2(j) ELSE n0
    IN  IVal(bits, n, m = 1 /\ bits <= 54)

\* d > x for an int64 x >= 1: by bit length, then by value (the ratios of
\* the histograms that record are below 2^30, where d.n is the value of d).
IValGT(d, x) ==
    IF d.bits # Mag(x) THEN d.bits > Mag(x)
    ELSE IF d.bits <= 30 THEN d.n > x.m * Pow2(x.e)
    ELSE IsPow2(x) /\ ~d.pow2

\* d > pow(2.0, k).
IValGTPow2(d, k) == d.bits > k + 1 \/ (d.bits = k + 1 /\ ~d.pow2)

find_capped_containing_binary_order_of_magnitude(h, d) ==
    IF IValGT(d, h.highest_to_lowest_value_ratio)
    THEN FloorLog2(h.highest_to_lowest_value_ratio)
    ELSE IF IValGTPow2(d, 50) THEN 50
    ELSE find_containing_binary_order_of_magnitude(OfInt(d.n))

\* What one range-adjustment step did, for the properties below:
\* outside: counts existed outside index 0; called / confirmed: the engine's
\* shift was called / returned true.
StepInfo(outside, called, confirmed) ==
    [outside |-> outside, called |-> called, confirmed |-> confirmed]

shift_covered_range_right(h, shift) ==
    LET shift_multiplier == DblDivPow2(One, Shl1(shift))
        outside == h.values.total_count > hdr_count_at_index(h.values, 0)
        engine == hdr_shift_values_left(h.values, shift)
    IN  IF outside
        THEN [ret |-> TRUE,
              h |-> [h EXCEPT
                  !.current_lowest_value = DblMul(@, shift_multiplier),
                  !.current_highest_value = DblMul(@, shift_multiplier)],
              info |-> StepInfo(TRUE, FALSE, FALSE)]
        ELSE IF engine.ret
        THEN [ret |-> TRUE,
              h |-> [h EXCEPT
                  !.values = engine.values,
                  !.current_lowest_value = DblMul(@, shift_multiplier),
                  !.current_highest_value = DblMul(@, shift_multiplier)],
              info |-> StepInfo(FALSE, TRUE, TRUE)]
        ELSE [ret |-> FALSE,
              h |-> [h EXCEPT !.values = engine.values],
              info |-> StepInfo(FALSE, TRUE, FALSE)]

\* A shift_covered_range_left that moves current_highest_value only.
shift_covered_range_left_HighestOnly(h, shift) ==
    LET shift_multiplier == DblMul(One, Shl1(shift))
        outside == h.values.total_count > hdr_count_at_index(h.values, 0)
        engine == hdr_shift_values_right(h.values, shift)
    IN  IF outside \/ engine.ret
        THEN [ret |-> TRUE,
              h |-> [h EXCEPT
                  !.values = IF outside THEN @ ELSE engine.values,
                  !.current_highest_value = DblMul(@, shift_multiplier)],
              info |-> StepInfo(outside, ~outside, ~outside)]
        ELSE [ret |-> FALSE, h |-> h, info |-> StepInfo(FALSE, TRUE, FALSE)]

shift_covered_range_left(h, shift) ==
    LET shift_multiplier == DblMul(One, Shl1(shift))
        outside == h.values.total_count > hdr_count_at_index(h.values, 0)
        engine == hdr_shift_values_right(h.values, shift)
    IN  IF outside
        THEN [ret |-> TRUE,
              h |-> [h EXCEPT
                  !.current_lowest_value = DblMul(@, shift_multiplier),
                  !.current_highest_value = DblMul(@, shift_multiplier)],
              info |-> StepInfo(TRUE, FALSE, FALSE)]
        ELSE IF engine.ret
        THEN [ret |-> TRUE,
              h |-> [h EXCEPT
                  !.values = engine.values,
                  !.current_lowest_value = DblMul(@, shift_multiplier),
                  !.current_highest_value = DblMul(@, shift_multiplier)],
              info |-> StepInfo(FALSE, TRUE, TRUE)]
        ELSE [ret |-> FALSE,
              h |-> [h EXCEPT !.values = engine.values],
              info |-> StepInfo(FALSE, TRUE, FALSE)]

\* The record of one adjust_range_for_value call: how many steps moved the
\* window in each direction, how many engine shifts were called, how many
\* steps moved the window although counts existed outside index 0 and no
\* engine shift confirmed the move, how many steps were refused, the
\* smallest and largest shift amount, and r_val and the shift amount of the
\* first step.
NoTrace ==
    [right |-> 0, left |-> 0, engine_calls |-> 0, unconfirmed |-> 0,
     refused |-> 0, min_shift |-> 64, max_shift |-> 0,
     first_r_val |-> IVal(0, 0, FALSE), first_shift |-> 0]

Traced(t, dir, r_val, shift, step) ==
    [first_r_val |-> IF t.right + t.left + t.refused = 0 THEN r_val
                     ELSE t.first_r_val,
     first_shift |-> IF t.right + t.left + t.refused = 0 THEN shift
                     ELSE t.first_shift,
     right |-> t.right + (IF dir = "right" /\ step.ret THEN 1 ELSE 0),
     left |-> t.left + (IF dir = "left" /\ step.ret THEN 1 ELSE 0),
     engine_calls |-> t.engine_calls + (IF step.info.called THEN 1 ELSE 0),
     unconfirmed |-> t.unconfirmed +
         (IF step.ret /\ step.info.outside /\ ~step.info.confirmed
          THEN 1 ELSE 0),
     refused |-> t.refused + (IF step.ret THEN 0 ELSE 1),
     min_shift |-> IF shift < t.min_shift THEN shift ELSE t.min_shift,
     max_shift |-> IF shift > t.max_shift THEN shift ELSE t.max_shift]

\* An iteration of the downward loop whose shift amount is 0 in the first
\* iteration of a call.
BelowStep_FirstShiftZero(s, value) ==
    IF s.st # "run" THEN s
    ELSE With(r_val_below(s.h, value),
         LAMBDA r_val :
         With(IF s.t.right + s.t.refused = 0 THEN 0
              ELSE find_capped_containing_binary_order_of_magnitude(
                       s.h, r_val),
         LAMBDA shift_amount :
         With(shift_covered_range_right(s.h, shift_amount),
         LAMBDA step :
             [h |-> step.h,
              t |-> Traced(s.t, "right", r_val, shift_amount, step),
              st |-> IF ~step.ret THEN "fail"
                     ELSE IF NumLT(value, step.h.current_lowest_value)
                     THEN "run" ELSE "ok"])))

\* An iteration of the downward loop that ends the loop after a successful
\* step, whether or not the value is inside the window.
BelowStep_Once(s, value) ==
    IF s.st # "run" THEN s
    ELSE With(r_val_below(s.h, value),
         LAMBDA r_val :
         With(find_capped_containing_binary_order_of_magnitude(s.h, r_val),
         LAMBDA shift_amount :
         With(shift_covered_range_right(s.h, shift_amount),
         LAMBDA step :
             [h |-> step.h,
              t |-> Traced(s.t, "right", r_val, shift_amount, step),
              st |-> IF ~step.ret THEN "fail" ELSE "ok"])))

\* One iteration of the do-while loop of the value < current_lowest_value
\* branch; s.st is "run" while the loop continues, then "ok" or "fail".
BelowStep(s, value) ==
    IF s.st # "run" THEN s
    ELSE With(r_val_below(s.h, value),
         LAMBDA r_val :
         With(find_capped_containing_binary_order_of_magnitude(s.h, r_val),
         LAMBDA shift_amount :
         With(shift_covered_range_right(s.h, shift_amount),
         LAMBDA step :
             [h |-> step.h,
              t |-> Traced(s.t, "right", r_val, shift_amount, step),
              st |-> IF ~step.ret THEN "fail"
                     ELSE IF NumLT(value, step.h.current_lowest_value)
                     THEN "run" ELSE "ok"])))

\* One iteration of the do-while loop of the value >= current_highest_value
\* branch.
AboveStep(s, value) ==
    IF s.st # "run" THEN s
    ELSE With(r_val_above(s.h, value),
         LAMBDA r_val :
         With(find_capped_containing_binary_order_of_magnitude(s.h, r_val),
         LAMBDA shift_amount :
         With(shift_covered_range_left(s.h, shift_amount),
         LAMBDA step :
             [h |-> step.h,
              t |-> Traced(s.t, "left", r_val, shift_amount, step),
              st |-> IF ~step.ret THEN "fail"
                     ELSE IF NumLE(step.h.current_highest_value, value)
                     THEN "run" ELSE "ok"])))

\* The do-while loops: the body runs, then the exit test.  Run(s, value, k)
\* does up to 2^k iterations, and Loop repeats runs of 2^8 iterations until
\* the loop ends, so that the depth of the evaluation stays logarithmic in
\* the number of iterations.
RECURSIVE BelowRun(_, _, _)
BelowRun(s, value, k) ==
    IF k = 0 THEN BelowStep(s, value)
    ELSE With(BelowRun(s, value, k - 1),
              LAMBDA s1 : IF s1.st # "run" THEN s1
                          ELSE BelowRun(s1, value, k - 1))

RECURSIVE BelowLoop(_, _)
BelowLoop(s, value) ==
    With(BelowRun(s, value, 8),
         LAMBDA s1 : IF s1.st # "run" THEN s1 ELSE BelowLoop(s1, value))

RECURSIVE AboveRun(_, _, _)
AboveRun(s, value, k) ==
    IF k = 0 THEN AboveStep(s, value)
    ELSE With(AboveRun(s, value, k - 1),
              LAMBDA s1 : IF s1.st # "run" THEN s1
                          ELSE AboveRun(s1, value, k - 1))

RECURSIVE AboveLoop(_, _)
AboveLoop(s, value) ==
    With(AboveRun(s, value, 8),
         LAMBDA s1 : IF s1.st # "run" THEN s1 ELSE AboveLoop(s1, value))

LoopResult(s) == [ret |-> s.st = "ok", h |-> s.h, t |-> s.t]

\* An adjust_range_for_value without the value >= current_highest_value
\* branch.
adjust_range_for_value_NoUpper(h, value) ==
    IF value.m = 0 THEN [ret |-> TRUE, h |-> h, t |-> NoTrace]
    ELSE IF NumLT(value, h.current_lowest_value)
    THEN IF NumLT(value, Zero) THEN [ret |-> FALSE, h |-> h, t |-> NoTrace]
         ELSE With(BelowLoop([h |-> h, t |-> NoTrace, st |-> "run"], value),
                   LoopResult)
    ELSE [ret |-> TRUE, h |-> h, t |-> NoTrace]

\* An adjust_range_for_value without the loop of the value <
\* current_lowest_value branch.
adjust_range_for_value_NoLower(h, value) ==
    IF value.m = 0 THEN [ret |-> TRUE, h |-> h, t |-> NoTrace]
    ELSE IF NumLT(value, h.current_lowest_value)
    THEN [ret |-> ~NumLT(value, Zero), h |-> h, t |-> NoTrace]
    ELSE IF NumLE(h.current_highest_value, value)
    THEN IF NumLT(HIGHEST_VALUE_EVA, value)
         THEN [ret |-> FALSE, h |-> h, t |-> NoTrace]
         ELSE With(AboveLoop([h |-> h, t |-> NoTrace, st |-> "run"], value),
                   LoopResult)
    ELSE [ret |-> TRUE, h |-> h, t |-> NoTrace]

\* An adjust_range_for_value that tests value <= 0.0 where the code tests
\* value < 0.0, and has no special case for zero.
adjust_range_for_value_ZeroFails(h, value) ==
    IF NumLT(value, h.current_lowest_value)
    THEN IF NumLE(value, Zero) THEN [ret |-> FALSE, h |-> h, t |-> NoTrace]
         ELSE With(BelowLoop([h |-> h, t |-> NoTrace, st |-> "run"], value),
                   LoopResult)
    ELSE IF NumLE(h.current_highest_value, value)
    THEN IF NumLT(HIGHEST_VALUE_EVA, value)
         THEN [ret |-> FALSE, h |-> h, t |-> NoTrace]
         ELSE With(AboveLoop([h |-> h, t |-> NoTrace, st |-> "run"], value),
                   LoopResult)
    ELSE [ret |-> TRUE, h |-> h, t |-> NoTrace]

adjust_range_for_value(h, value) ==
    IF value.m = 0 THEN [ret |-> TRUE, h |-> h, t |-> NoTrace]
    ELSE IF NumLT(value, h.current_lowest_value)
    THEN IF NumLT(value, Zero) THEN [ret |-> FALSE, h |-> h, t |-> NoTrace]
         ELSE With(BelowLoop([h |-> h, t |-> NoTrace, st |-> "run"], value),
                   LoopResult)
    ELSE IF NumLE(h.current_highest_value, value)
    THEN IF NumLT(HIGHEST_VALUE_EVA, value)
         THEN [ret |-> FALSE, h |-> h, t |-> NoTrace]
         ELSE With(AboveLoop([h |-> h, t |-> NoTrace, st |-> "run"], value),
                   LoopResult)
    ELSE [ret |-> TRUE, h |-> h, t |-> NoTrace]

\* ------------------------------------------------------------------------
\* hdr_dbl_record_value.
\* ------------------------------------------------------------------------
\* (int64_t) x for a double x: truncation toward zero when the result fits
\* an int64; otherwise the conversion is undefined, and the result is what
\* the build gives: INT64_MIN or INT64_MAX.  The set of possible results.
CastToInt64(x) ==
    IF Mag(x) > 63 THEN {Int64Min, Int64Max}
    ELSE IF x.e >= 0 THEN {x}
    ELSE IF -x.e > 30 THEN {Zero}
    ELSE {Num(Sgn(x) * (Abs(x.m) \div Pow2(-x.e)), 0)}

\* The possible results of one call (one, unless the conversion to int64 is
\* undefined): ret is the returned bool, h the histogram afterwards, t the
\* trace of the adjustment, adjusted whether adjust_range_for_value was
\* called, reached whether the call got to the engine's record, int_value
\* what it handed to it and recorded what the engine's record returned.
\* An hdr_dbl_record_value that hands the value to the engine before it
\* looks at the result of adjust_range_for_value.
hdr_dbl_record_value_RecordFirst(h, value) ==
    LET outside == NumLT(value, h.current_lowest_value)
                   \/ NumLE(h.current_highest_value, value)
    IN  With(IF outside THEN adjust_range_for_value(h, value)
             ELSE [ret |-> TRUE, h |-> h, t |-> NoTrace],
        LAMBDA adj :
        { With(hdr_record_value(adj.h.values, int_value),
          LAMBDA rec :
          [ret |-> adj.ret, h |-> [adj.h EXCEPT !.values = rec.values],
           t |-> adj.t, adjusted |-> outside,
           reached |-> TRUE, int_value |-> int_value,
           recorded |-> rec.ret]) :
          int_value \in CastToInt64(
              DblMul(value, adj.h.dbl_to_int_conversion_ratio)) })

hdr_dbl_record_value(h, value) ==
    LET outside == NumLT(value, h.current_lowest_value)
                   \/ NumLE(h.current_highest_value, value)
    IN  With(IF outside THEN adjust_range_for_value(h, value)
             ELSE [ret |-> TRUE, h |-> h, t |-> NoTrace],
        LAMBDA adj :
        IF ~adj.ret
        THEN {[ret |-> FALSE, h |-> adj.h, t |-> adj.t, adjusted |-> outside,
               reached |-> FALSE, int_value |-> Zero, recorded |-> FALSE]}
        ELSE { With(hdr_record_value(adj.h.values, int_value),
               LAMBDA rec :
               [ret |-> TRUE, h |-> [adj.h EXCEPT !.values = rec.values],
                t |-> adj.t, adjusted |-> outside,
                reached |-> TRUE, int_value |-> int_value,
                recorded |-> rec.ret]) :
               int_value \in CastToInt64(
                   DblMul(value, adj.h.dbl_to_int_conversion_ratio)) })

\* ------------------------------------------------------------------------
\* The state machine: one histogram, constructed by hdr_dbl_init, and a
\* caller that records values one call at a time.
\* ------------------------------------------------------------------------
\* Constructions the caller makes: (highest_to_lowest_value_ratio,
\* significant_figures), every ratio below 2^30.
Configs ==
    { [ratio |-> 1000000000, sf |-> 3],
      [ratio |-> 1000, sf |-> 2],
      [ratio |-> 65536, sf |-> 1] }

\* Values the caller records: 0, a negative, the values of the documented
\* scenario, values around the initial window 2^800, values at and around
\* the ceiling 2^1022, and the smallest subnormal.
Values ==
    { Zero, Num(-5, 0), Num(1, 0), Num(1000, 0), Num(500000, 0),
      Num(1, 795), Num(3, 796), Num(1, 850),
      HIGHEST_VALUE_EVA, Num(3, 1021), Num(1, 1023), Num(1, -1074) }

\* The documented scenario: (10^9, 3), then 1.0, 1000.0, 500000.0.
ScenarioConfig == [ratio |-> 1000000000, sf |-> 3]
Scenario == << Num(1, 0), Num(1000, 0), Num(500000, 0) >>

VARIABLES
    h,          \* the struct hdr_dbl_histogram, engine included
    calls,      \* number of hdr_dbl_record_value calls made
    successes,  \* number of those calls that returned true
    scenario,   \* how many calls of the scenario have been made, in order
                \* and with no other call; -1 when off the scenario
    last,       \* the last call: its argument, its result, h before it,
                \* whether the values recorded so far are strictly
                \* increasing / strictly decreasing, and how its value
                \* compares with that of the call before it when that call
                \* returned true for a value above zero ("larger",
                \* "smaller", or "none")
    construction, \* the hdr_dbl_init call: its arguments and its result
    run         \* where a call that runs statement by statement stands,
                \* and what a concurrent reader saw last

vars == << h, calls, successes, scenario, last, construction, run >>

\* No call under way.  use_lock: whether callers and readers take one
\* exclusive lock around each call; pending: the engine rebased the counts
\* in the current step and the window bounds have not moved yet; seen: what
\* the reader saw when it last looked.
IdleRun(use_lock) ==
    [pc |-> "idle", use_lock |-> use_lock, value |-> Zero, dir |-> "none",
     shift |-> 0, pending |-> FALSE, seen |-> "nothing"]

NoCall ==
    [made |-> FALSE, value |-> Zero, ret |-> TRUE, t |-> NoTrace,
     adjusted |-> FALSE, reached |-> FALSE, int_value |-> Zero,
     recorded |-> FALSE,
     increasing |-> TRUE, decreasing |-> TRUE, after_record |-> "none"]

Init ==
    \E c \in Configs :
        \E r \in hdr_dbl_init(OfInt(c.ratio), c.sf) :
            /\ r.rc = 0
            /\ h = r.h
            /\ calls = 0
            /\ successes = 0
            /\ scenario = IF c = ScenarioConfig THEN 0 ELSE -1
            /\ last = NoCall @@ [before |-> r.h]
            /\ construction = [made |-> TRUE, ratio |-> OfInt(c.ratio),
                               sf |-> c.sf, rc |-> r.rc, check |-> r.check]
            /\ run = IdleRun(FALSE)

RecordValue ==
    /\ calls < MaxCalls
    /\ \E value \in Values :
        \E r \in hdr_dbl_record_value(h, value) :
            /\ h' = r.h
            /\ calls' = calls + 1
            /\ successes' = IF r.ret THEN successes + 1 ELSE successes
            /\ scenario' = IF /\ scenario >= 0
                              /\ scenario < Len(Scenario)
                              /\ value = Scenario[scenario + 1]
                           THEN scenario + 1 ELSE -1
            /\ last' = [made |-> TRUE, value |-> value, ret |-> r.ret,
                        t |-> r.t, adjusted |-> r.adjusted,
                        reached |-> r.reached, int_value |-> r.int_value,
                        recorded |-> r.recorded, before |-> h,
                        increasing |-> last.increasing /\
                            (last.made => NumLT(last.value, value)),
                        decreasing |-> last.decreasing /\
                            (last.made => NumLT(value, last.value)),
                        after_record |->
                            IF ~(last.made /\ last.ret
                                 /\ NumLT(Zero, last.value)) THEN "none"
                            ELSE IF NumLT(last.value, value) THEN "larger"
                            ELSE IF NumLT(value, last.value) THEN "smaller"
                            ELSE "none"]
            /\ UNCHANGED << construction, run >>

Next == RecordValue

Spec == Init /\ [][Next]_vars

\* ------------------------------------------------------------------------
\* The same caller over either engine: the one of the specification, or one
\* whose shifts return false.
\* ------------------------------------------------------------------------
AnyEngineInit ==
    \E c \in Configs, refuses \in BOOLEAN :
        \E r \in hdr_dbl_init(OfInt(c.ratio), c.sf) :
            /\ r.rc = 0
            /\ h = [r.h EXCEPT !.values.refuses_shift = refuses]
            /\ calls = 0
            /\ successes = 0
            /\ scenario = IF c = ScenarioConfig THEN 0 ELSE -1
            /\ last = NoCall @@
                      [before |-> [r.h EXCEPT !.values.refuses_shift = refuses]]
            /\ construction = [made |-> TRUE, ratio |-> OfInt(c.ratio),
                               sf |-> c.sf, rc |-> r.rc, check |-> r.check]
            /\ run = IdleRun(FALSE)

AnyEngineSpec == AnyEngineInit /\ [][Next]_vars

\* ------------------------------------------------------------------------
\* The construction alone: a caller that picks the two arguments and calls
\* hdr_dbl_init once.
\* ------------------------------------------------------------------------
MaxSigFigs == 11

\* Ratios below 2, powers of two and their neighbours, the ratios of Configs,
\* ratios around 2^61 / 10^10 and 2^61 / power(10, 10), and ratios around
\* 2^61 / 10^5 and 2^63 / 10^5.
Ratios ==
    { OfInt(n) : n \in {1, 2, 3, 1000, 1024, 65535, 65536, 1000000000,
                        230584301, 1500000000, 1635273794, 2147483647} }
    \cup { Num(1, 44), Num(1, 45), Num(3, 45), Num(1, 47) }

SigFigs == 0 .. MaxSigFigs

\* No histogram: *result before hdr_dbl_init stored one.
NoHistogram == [allocated |-> FALSE]

ConstructInit ==
    \E ratio \in Ratios, sf \in SigFigs :
        /\ h = NoHistogram
        /\ calls = 0
        /\ successes = 0
        /\ scenario = -1
        /\ last = NoCall @@ [before |-> NoHistogram]
        /\ construction = [made |-> FALSE, ratio |-> ratio, sf |-> sf,
                           rc |-> 0, check |-> "none"]
        /\ run = IdleRun(FALSE)

Construct ==
    /\ ~construction.made
    /\ \E r \in hdr_dbl_init(construction.ratio, construction.sf) :
           /\ construction' = [construction EXCEPT
                                  !.made = TRUE, !.rc = r.rc,
                                  !.check = r.check]
           /\ h' = IF r.rc = 0 THEN r.h ELSE h
    /\ UNCHANGED << calls, successes, scenario, last, run >>

ConstructNext == Construct

ConstructSpec == ConstructInit /\ [][ConstructNext]_vars

\* ------------------------------------------------------------------------
\* A call that runs statement by statement, next to a reader of the window
\* and the counts.  hdr_dbl_histogram.c takes no lock; callers either take
\* one exclusive lock around each call and each read (use_lock) or none.
\* ------------------------------------------------------------------------
\* Values the concurrent caller records: 0, a negative, values a few steps
\* below and above the initial window, and one above the ceiling.
ConcurrentValues ==
    { Zero, Num(-5, 0), Num(1, 795), Num(3, 796), Num(1, 850), Num(1, 1023) }

\* shift_multiplier of shift_covered_range_right / shift_covered_range_left.
ShiftMultiplier(dir, shift) ==
    IF dir = "right" THEN DblDivPow2(One, Shl1(shift))
    ELSE DblMul(One, Shl1(shift))

\* h->current_lowest_value *= shift_multiplier.
MoveLowest(hh, dir, shift) ==
    [hh EXCEPT !.current_lowest_value = DblMul(@, ShiftMultiplier(dir, shift))]

\* A step that leaves current_highest_value where it is.
MoveHighest_Skip(hh, dir, shift) == hh

\* h->current_highest_value *= shift_multiplier.
MoveHighest(hh, dir, shift) ==
    [hh EXCEPT !.current_highest_value = DblMul(@, ShiftMultiplier(dir, shift))]

\* The lock is held from the start of a call to its return.
LockHeld == run.use_lock /\ run.pc # "idle"

ConcurrentInit ==
    \E c \in Configs, use_lock \in BOOLEAN :
        \E r \in hdr_dbl_init(OfInt(c.ratio), c.sf) :
            /\ r.rc = 0
            /\ h = r.h
            /\ calls = 0
            /\ successes = 0
            /\ scenario = -1
            /\ last = NoCall @@ [before |-> r.h]
            /\ construction = [made |-> TRUE, ratio |-> OfInt(c.ratio),
                               sf |-> c.sf, rc |-> r.rc, check |-> r.check]
            /\ run = IdleRun(use_lock)

\* The call returns: the lock, if any, is released.
Returned(ret) ==
    /\ calls' = calls + 1
    /\ successes' = IF ret THEN successes + 1 ELSE successes
    /\ run' = [run EXCEPT !.pc = "idle", !.pending = FALSE]

\* hdr_dbl_record_value up to the first loop iteration: the window test of
\* line 224 and the tests of adjust_range_for_value before its loops.
CallBegin ==
    /\ run.pc = "idle"
    /\ calls < MaxCalls
    /\ \E value \in ConcurrentValues :
        LET below == NumLT(value, h.current_lowest_value)
            above == NumLE(h.current_highest_value, value)
        IN  IF ~(below \/ above) \/ value.m = 0
            THEN /\ run' = [run EXCEPT !.pc = "record", !.value = value]
                 /\ UNCHANGED << h, calls, successes >>
            ELSE IF below
            THEN IF NumLT(value, Zero)
                 THEN Returned(FALSE) /\ UNCHANGED h
                 ELSE /\ run' = [run EXCEPT !.pc = "step", !.value = value,
                                            !.dir = "right"]
                      /\ UNCHANGED << h, calls, successes >>
            ELSE IF NumLT(HIGHEST_VALUE_EVA, value)
                 THEN Returned(FALSE) /\ UNCHANGED h
                 ELSE /\ run' = [run EXCEPT !.pc = "step", !.value = value,
                                            !.dir = "left"]
                      /\ UNCHANGED << h, calls, successes >>
    /\ UNCHANGED << scenario, last, construction >>

\* The start of a loop iteration: r_val, shift_amount, and the condition of
\* shift_covered_range_right / shift_covered_range_left, in which the engine
\* rebases the counts.
StepCondition ==
    /\ run.pc = "step"
    /\ LET r_val == IF run.dir = "right" THEN r_val_below(h, run.value)
                    ELSE r_val_above(h, run.value)
           shift_amount ==
               find_capped_containing_binary_order_of_magnitude(h, r_val)
           outside == h.values.total_count > hdr_count_at_index(h.values, 0)
           engine == IF run.dir = "right"
                     THEN hdr_shift_values_left(h.values, shift_amount)
                     ELSE hdr_shift_values_right(h.values, shift_amount)
       IN  IF outside
           THEN /\ run' = [run EXCEPT !.pc = "move_lowest",
                                      !.shift = shift_amount]
                /\ UNCHANGED << h, calls, successes >>
           ELSE IF engine.ret
           THEN /\ h' = [h EXCEPT !.values = engine.values]
                /\ run' = [run EXCEPT !.pc = "move_lowest",
                                      !.shift = shift_amount,
                                      !.pending = TRUE]
                /\ UNCHANGED << calls, successes >>
           ELSE /\ h' = [h EXCEPT !.values = engine.values]
                /\ Returned(FALSE)
    /\ UNCHANGED << scenario, last, construction >>

\* h->current_lowest_value *= shift_multiplier (lines 83, 99).
StepMoveLowest ==
    /\ run.pc = "move_lowest"
    /\ h' = MoveLowest(h, run.dir, run.shift)
    /\ run' = [run EXCEPT !.pc = "move_highest", !.pending = FALSE]
    /\ UNCHANGED << calls, successes, scenario, last, construction >>

\* h->current_highest_value *= shift_multiplier (lines 84, 100), the return
\* of the step and the loop test.
StepMoveHighest ==
    /\ run.pc = "move_highest"
    /\ h' = MoveHighest(h, run.dir, run.shift)
    /\ LET again == IF run.dir = "right"
                    THEN NumLT(run.value, h'.current_lowest_value)
                    ELSE NumLE(h'.current_highest_value, run.value)
       IN  run' = [run EXCEPT !.pc = IF again THEN "step" ELSE "record"]
    /\ UNCHANGED << calls, successes, scenario, last, construction >>

\* Lines 232-235: the conversion, the engine's record, return true.
StepRecord ==
    /\ run.pc = "record"
    /\ \E int_value \in CastToInt64(
                            DblMul(run.value, h.dbl_to_int_conversion_ratio)) :
           h' = [h EXCEPT !.values = hdr_record_value(@, int_value).values]
    /\ Returned(TRUE)
    /\ UNCHANGED << scenario, last, construction >>

\* What a reader of current_lowest_value, current_highest_value and the
\* counts sees.
Snapshot ==
    IF run.pending THEN "counts_rebased_window_not_moved"
    ELSE IF h.current_highest_value
            # DblMul(h.current_lowest_value,
                     calculate_internal_highest_to_lowest_value_ratio(
                         h.highest_to_lowest_value_ratio))
    THEN "lowest_moved_highest_not"
    ELSE "consistent"

\* The reader looks; with the lock, only when no call holds it.
Observe ==
    /\ ~LockHeld
    /\ run' = [run EXCEPT !.seen = Snapshot]
    /\ UNCHANGED << h, calls, successes, scenario, last, construction >>

ConcurrentNext ==
    \/ CallBegin
    \/ StepCondition
    \/ StepMoveLowest
    \/ StepMoveHighest
    \/ StepRecord
    \/ Observe

ConcurrentSpec == ConcurrentInit /\ [][ConcurrentNext]_vars

\* ------------------------------------------------------------------------
\* Properties.
\* ------------------------------------------------------------------------
InWindow(hh, v) ==
    NumLE(hh.current_lowest_value, v) /\ NumLT(v, hh.current_highest_value)

SameCounts(a, b) ==
    a.values.total_count = b.values.total_count
    /\ a.values.counts = b.values.counts

SameWindow(a, b) ==
    a.current_lowest_value = b.current_lowest_value
    /\ a.current_highest_value = b.current_highest_value

\* |v - back| <= v * 10^-significant_figures, for v > 0.
RelErrWithin(v, back, significant_figures) ==
    IF back = v THEN TRUE
    ELSE IF Sgn(back) <= 0 THEN FALSE
    ELSE LET hi == IF NumLT(v, back) THEN back ELSE v
             lo == IF NumLT(v, back) THEN v ELSE back
             mn == IF hi.e < lo.e THEN hi.e ELSE lo.e
             al(x) == x.m * Pow2(x.e - mn)
         IN  IF Mag(hi) - Mag(lo) >= 2 THEN FALSE
             ELSE al(hi) - al(lo) <= al(v) \div power(10, significant_figures)

\* C1: a range-adjustment step moves the window only if all recorded counts
\* are in bucket index 0 or the engine's shift of that step returned true;
\* a step with counts outside index 0 and no confirmed engine shift fails,
\* so no call has a step that moved the window unconfirmed.
C1_MovesOnlyWhenLossless ==
    last.made => last.t.unconfirmed = 0

\* C2: whenever hdr_dbl_record_value returns false, the engine's total count
\* and the count at every index are what they were before the call.
C2_FailedRecordKeepsCounts ==
    (last.made /\ ~last.ret) => SameCounts(h, last.before)

\* C2 witness: a call returned false on a histogram that holds counts.
C2_Witness ==
    last.made /\ ~last.ret /\ h.values.total_count > 0

\* C3: after construction and after every call, current_highest_value =
\* current_lowest_value * internal ratio, the internal ratio being a power
\* of two >= the requested ratio, and the requested ratio never changes.
C3_WindowSpansInternalRatio ==
    LET internal == calculate_internal_highest_to_lowest_value_ratio(
                        h.highest_to_lowest_value_ratio)
    IN  /\ h.current_highest_value = DblMul(h.current_lowest_value, internal)
        /\ IsPow2(internal)
        /\ NumLE(h.highest_to_lowest_value_ratio, internal)
        /\ h.highest_to_lowest_value_ratio =
               last.before.highest_to_lowest_value_ratio

\* C3 witness: a call moved the window upward after earlier calls had moved
\* it downward from its initial position.
C3_Witness ==
    /\ last.made
    /\ last.t.left > 0
    /\ last.before.current_lowest_value # Num(1, InitialLowestExp)

\* C4: a call that returns true for a nonzero value leaves the value inside
\* the window; in the scenario (10^9, 3), 1.0, 1000.0, 500000.0 every call
\* returns true and the window then holds both 1.0 and 500000.0.
C4_RecordedValueInWindow ==
    /\ (last.made /\ last.ret /\ last.value # Zero) => InWindow(h, last.value)
    /\ scenario >= 1 => last.ret
    /\ scenario = Len(Scenario) =>
           /\ NumLE(h.current_lowest_value, Scenario[1])
           /\ NumLT(Scenario[1], Scenario[3])
           /\ NumLT(Scenario[3], h.current_highest_value)

\* C4 witness: the three calls of the scenario have been made.
C4_Witness ==
    scenario = Len(Scenario) /\ last.ret /\ last.value = Scenario[3]

\* C5: in every reachable state int_to_dbl_conversion_ratio =
\* current_lowest_value / sub_bucket_half_count, dbl_to_int_conversion_ratio
\* is its reciprocal, and the engine's conversion_ratio equals it.
C5_RatiosFollowWindow ==
    /\ h.int_to_dbl_conversion_ratio =
           DblDivPow2(h.current_lowest_value,
                      OfInt(h.values.sub_bucket_half_count))
    /\ h.dbl_to_int_conversion_ratio =
           DblDivPow2(One, h.int_to_dbl_conversion_ratio)
    /\ h.values.conversion_ratio = h.int_to_dbl_conversion_ratio

\* C6: for a nonzero value recorded with result true, the integer handed to
\* the engine, converted back by int_to_dbl_conversion_ratio, is within a
\* relative error of 10^-significant_figures of the value; the integer is
\* at least sub_bucket_half_count and within the engine's range.
C6_RoundTrip ==
    (last.made /\ last.ret /\ last.value # Zero) =>
        /\ RelErrWithin(last.value,
                        DblMul(last.int_value, h.int_to_dbl_conversion_ratio),
                        h.values.significant_figures)
        /\ NumLE(OfInt(h.values.sub_bucket_half_count), last.int_value)
        /\ Mag64(last.int_value) <= h.values.highest_trackable_bits

\* C7: the engine's total count equals the number of calls that returned
\* true, and no call returns true when the engine's record added no count.
C7_TotalCountsSuccesses ==
    /\ h.values.total_count = successes
    /\ (last.made /\ last.ret) => last.recorded

\* C8: a call with a negative value returns false and leaves the whole
\* histogram as it was.
C8_NegativeRejected ==
    (last.made /\ NumLT(last.value, Zero)) => (~last.ret /\ h = last.before)

\* C8 witness: a negative value was offered to a histogram whose window has
\* moved and that holds counts.
C8_Witness ==
    /\ last.made
    /\ NumLT(last.value, Zero)
    /\ h.values.total_count > 0
    /\ h.current_lowest_value # Num(1, InitialLowestExp)

\* C9: a call with 0.0 returns true, calls no engine shift, leaves the
\* window where it was and hands integer 0 to the engine's record.
C9_ZeroAlwaysRecorded ==
    (last.made /\ last.value = Zero) =>
        /\ last.ret
        /\ last.t.engine_calls = 0
        /\ SameWindow(h, last.before)
        /\ last.reached
        /\ last.int_value = Zero

\* C9 witness: 0.0 was recorded both into the initial window and into a
\* window that had moved and held counts outside index 0.
C9_Witness ==
    /\ last.made
    /\ last.value = Zero
    /\ last.before.current_lowest_value # Num(1, InitialLowestExp)
    /\ last.before.values.total_count
           > hdr_count_at_index(last.before.values, 0)

\* C10: a call with a value greater than HIGHEST_VALUE_EVA returns false,
\* records nothing and moves no window bound, whatever was recorded before.
C10_AboveCeilingRejected ==
    (last.made /\ NumLT(HIGHEST_VALUE_EVA, last.value)) =>
        (~last.ret /\ SameCounts(h, last.before) /\ SameWindow(h, last.before))

\* C11: every call of hdr_dbl_record_value with a finite value ends, and in
\* every iteration of either loop of adjust_range_for_value the shift amount
\* is at least 1: a call moves the window in one direction only, every step
\* moves it by at least one binary order of magnitude toward the value, and
\* the loop ends with the value inside the window or at a refused step.
C11_StepsMoveTowardValue ==
    last.made /\ last.t.right + last.t.left + last.t.refused > 0 =>
        /\ last.t.min_shift >= 1
        /\ last.t.right = 0 \/ last.t.left = 0
        /\ last.t.right > 0 =>
               h.current_lowest_value.e
                   <= last.before.current_lowest_value.e - last.t.right
        /\ last.t.left > 0 =>
               h.current_highest_value.e
                   >= last.before.current_highest_value.e + last.t.left
        /\ last.t.refused = 0 => last.ret /\ InWindow(h, last.value)
        /\ last.t.refused > 0 => ~last.ret /\ last.t.refused = 1

\* A call whose downward loop took more than 100 steps.
C11_Witness ==
    last.made /\ last.ret /\ last.t.right > 100

\* ratio * 10^sf >= 2^61 in the integers, for an int64 ratio = m * 2^e:
\* m * 5^sf >= 2^(61 - e - sf), where 5^sf fits 32 bits up to sf = 13.
ProductAtLeastPow61(ratio, sf) ==
    MulGEPow2(ratio.m, 5 ^ sf, 61 - ratio.e - sf)

\* C12: for ratio >= 2 and sf >= 1, hdr_dbl_init returns EINVAL and
\* produces no histogram whenever the mathematical product ratio * 10^sf is
\* at least 2^61, and does not return from the third guard when the
\* product is below 2^61.
C12_GuardOnMathematicalProduct ==
    (construction.made /\ NumLE(OfInt(2), construction.ratio)
     /\ construction.sf >= 1) =>
        IF ProductAtLeastPow61(construction.ratio, construction.sf)
        THEN construction.rc = EINVAL /\ h = NoHistogram
        ELSE construction.check # "product"

\* C13: over any sequence of calls on a freshly constructed histogram,
\* recording a strictly increasing sequence of values never triggers a
\* downward shift (shift_covered_range_right), and recording a strictly
\* decreasing sequence never triggers an upward shift
\* (shift_covered_range_left).
C13_GrowthDirection ==
    last.made =>
        /\ last.increasing => last.t.right = 0
        /\ last.decreasing => last.t.left = 0

\* C13, amended: after a call that returned true for a value above zero,
\* recording a larger value never triggers a downward shift and recording a
\* smaller value never triggers an upward shift.
C13_GrowthDirectionAfterRecord ==
    last.made =>
        /\ last.after_record = "larger" => last.t.right = 0
        /\ last.after_record = "smaller" => last.t.left = 0

\* A third call of a strictly increasing sequence that moved the window
\* upward.
C13_Witness ==
    /\ last.made /\ calls = 3
    /\ last.after_record = "larger"
    /\ last.increasing /\ last.t.left > 0

\* The smallest power of two strictly greater than an int64 r >= 1:
\* 2^(floor(log2(r)) + 1).
SmallestPow2Above(r) == Shl1(FloorLog2(r) + 1)

\* C14: for every ratio r that hdr_dbl_init accepts,
\* calculate_internal_highest_to_lowest_value_ratio(r) is the smallest
\* power of two strictly greater than r, 2^(floor(log2(r)) + 1), and the
\* constructed window spans that factor.
C14_InternalRatioSmallestPow2 ==
    (construction.made /\ construction.rc = 0) =>
        /\ calculate_internal_highest_to_lowest_value_ratio(construction.ratio)
               = SmallestPow2Above(construction.ratio)
        /\ h.current_highest_value
               = DblMul(h.current_lowest_value,
                        SmallestPow2Above(construction.ratio))

\* The shift amount of the specification for the gap ratio d: the binary
\* order of magnitude of d, capped at the exponent of the internal ratio
\* when d exceeds the internal ratio, and at 50 when d exceeds 2^50.
SpecifiedShift(hh, d) ==
    LET internal == calculate_internal_highest_to_lowest_value_ratio(
                        hh.highest_to_lowest_value_ratio)
        capped == IF IValGT(d, internal) THEN FloorLog2(internal) ELSE d.bits
    IN  IF IValGTPow2(d, 50) /\ capped > 50 THEN 50 ELSE capped

\* C15: in every adjustment step the shift amount is the binary order of
\* magnitude of the gap ratio, capped at the exponent of the internal ratio
\* when the gap ratio exceeds the internal ratio and at 50 when it exceeds
\* 2^50; no step shifts by more than 50 bits nor by more than the exponent
\* of the internal ratio.  Stated for the first step of every call and for
\* the largest shift amount of the call.
C15_ShiftCappedAtInternalExponent ==
    (last.made /\ last.t.right + last.t.left + last.t.refused > 0) =>
        /\ last.t.first_shift
               = SpecifiedShift(last.before, last.t.first_r_val)
        /\ last.t.max_shift <= 50
        /\ last.t.max_shift
               <= FloorLog2(calculate_internal_highest_to_lowest_value_ratio(
                               h.highest_to_lowest_value_ratio))

\* C16: on a freshly constructed histogram the first recorded value always
\* triggers a downward range adjustment: every first call that returns
\* true went through the value < current_lowest_value branch and made at
\* least one downward shift, no upward shift, and no record without
\* adjustment.
C16_FirstValueShiftsDown ==
    (last.made /\ calls = 1 /\ last.ret) =>
        /\ last.adjusted
        /\ NumLT(last.value, last.before.current_lowest_value)
        /\ last.t.right >= 1
        /\ last.t.left = 0

\* C16, amended: the same for a first value above zero and below the
\* initial current_lowest_value 2^800.
C16_FirstValueBelowSentinelShiftsDown ==
    (last.made /\ calls = 1 /\ NumLT(Zero, last.value)
     /\ NumLT(last.value, Num(1, InitialLowestExp))) =>
        /\ last.ret
        /\ last.adjusted
        /\ last.before.current_lowest_value = Num(1, InitialLowestExp)
        /\ last.t.right >= 1
        /\ last.t.left = 0
        /\ InWindow(h, last.value)

\* The first call of the documented scenario, 1.0, moved the window down.
C16_Witness ==
    /\ last.made /\ calls = 1 /\ scenario = 1
    /\ last.t.right >= 1 /\ InWindow(h, One)

\* C17: when every recorded count is in bucket index 0 (the empty histogram
\* included), hdr_dbl_record_value of a value v with 0 < v <= ceiling
\* returns true, whatever the engine's shift_values_left /
\* shift_values_right return.
C17_ShiftPermittedWhenAllInIndexZero ==
    (/\ last.made
     /\ last.before.values.total_count
            = hdr_count_at_index(last.before.values, 0)
     /\ NumLT(Zero, last.value)
     /\ NumLE(last.value, HIGHEST_VALUE_EVA)) => last.ret

\* C18: hdr_dbl_record_value of a value already inside the window leaves
\* current_lowest_value, current_highest_value, both conversion ratios and
\* highest_to_lowest_value_ratio unchanged and calls no engine shift; and in
\* every call the window bounds change only through steps of
\* shift_covered_range_right / shift_covered_range_left, both bounds by the
\* same power of two.
C18_InWindowRecordKeepsWindow ==
    last.made =>
        /\ InWindow(last.before, last.value) =>
               /\ ~last.adjusted
               /\ SameWindow(h, last.before)
               /\ h.int_to_dbl_conversion_ratio
                      = last.before.int_to_dbl_conversion_ratio
               /\ h.dbl_to_int_conversion_ratio
                      = last.before.dbl_to_int_conversion_ratio
               /\ h.highest_to_lowest_value_ratio
                      = last.before.highest_to_lowest_value_ratio
               /\ last.t.engine_calls = 0
        /\ ~SameWindow(h, last.before) => last.t.right + last.t.left > 0
        /\ h.current_lowest_value.m = last.before.current_lowest_value.m
        /\ h.current_highest_value.m = last.before.current_highest_value.m
        /\ h.current_lowest_value.e - last.before.current_lowest_value.e
               = h.current_highest_value.e - last.before.current_highest_value.e

\* A call that recorded a value above zero that was already inside a
\* window moved by an earlier call.
C18_Witness ==
    /\ last.made /\ last.ret /\ last.recorded
    /\ NumLT(Zero, last.value)
    /\ InWindow(last.before, last.value)
    /\ last.before.current_lowest_value # Num(1, InitialLowestExp)

\* The smallest power of two >= 2 * 10^sf, for 2 * 10^sf below 2^30.
SmallestPow2AtLeastTwicePow10(sf) == Pow2(CeilLog2Acc(2 * 10 ^ sf, 0))

\* C20: for every significant_figures that construction accepts,
\* number_of_sub_buckets(significant_figures) is the smallest power of two
\* >= 2 * 10^significant_figures, and the integer value range handed to the
\* engine's bucket configuration is half that count times the internal
\* ratio.
C20_SubBucketsSmallestPow2 ==
    (construction.made /\ construction.rc = 0) =>
        /\ number_of_sub_buckets(construction.sf)
               = SmallestPow2AtLeastTwicePow10(construction.sf)
        /\ calculate_integer_value_range(construction.ratio, construction.sf)
               = DblMul(OfInt(number_of_sub_buckets(construction.sf) \div 2),
                        calculate_internal_highest_to_lowest_value_ratio(
                            construction.ratio))
        /\ h.values.highest_trackable_bits
               = Mag(calculate_integer_value_range(construction.ratio,
                                                   construction.sf)) - 1

\* C19: a range-adjustment step is not atomic.  A reader that takes no lock
\* can see the counts rebased while the window has not moved, or
\* current_lowest_value multiplied while current_highest_value is not; when
\* every call and every read runs under one exclusive lock, a reader sees
\* neither, and what it sees is the state between two calls.
C19_InconsistentOnlyWithoutLock ==
    /\ run.seen # "nothing" /\ run.seen # "consistent" => ~run.use_lock
    /\ run.use_lock /\ run.pc = "idle" => Snapshot = "consistent"

\* A reader without the lock saw current_lowest_value moved and
\* current_highest_value not, after a call had returned.
C19_Witness ==
    ~run.use_lock /\ run.seen = "lowest_moved_highest_not" /\ calls >= 1

====
